---- MODULE Spec2Model ----
(***************************************************************************)
(* easyclimate.plot.quick_draw.quick_draw_spatial_basemap                  *)
(*                                                                         *)
(* The function evaluates ccrs.PlateCarree(central_longitude), hands the   *)
(* projection to plt.subplots(nrows, ncols, subplot_kw=...), then draws    *)
(* gridlines and coastlines on the single axes (1 x 1) or on every element *)
(* of ax.flat, and returns (fig, ax).  Every call it makes to matplotlib   *)
(* and cartopy is one step of the model; each of those calls either        *)
(* returns or raises, and the function has no try/except of its own.       *)
(***************************************************************************)
EXTENDS Integers, Sequences, FiniteSets, TLC

\* ------------------------------------------------------------------ bounds
MaxDim == 2
MaxCalls == 2

\* ------------------------------------------------------------------ inputs
\* nrows, ncols: int.  0 is a value the caller can pass (nothing validates it).
Dims == 0..MaxDim

\* central_longitude: two numbers and one value PlateCarree cannot take.
Longitudes == {"0.0", "180.0", "east"}

\* draw_labels: str | bool | list | dict, one value of each shape.
LabelSpecs ==
    { <<"str", "x">>,
      <<"bool", "True">>,
      <<"list", "bottom", "left">>,
      <<"dict", "bottom", "x", "left", "y">> }

\* (gridlines_color, gridlines_alpha in tenths, gridlines_linestyle)
GridlineStyles ==
    { [color |-> "grey", alpha |-> 5, linestyle |-> "--"],
      [color |-> "red", alpha |-> 10, linestyle |-> ":"] }

\* (coastlines_edgecolor, coastlines_linewidths in tenths)
CoastlineStyles ==
    { [edgecolor |-> "black", linewidths |-> 5],
      [edgecolor |-> "blue", linewidths |-> 12] }

\* The defaults of the signature.
DefaultArgs ==
    [ nrows |-> 1,
      ncols |-> 1,
      central_longitude |-> "0.0",
      draw_labels |-> <<"list", "bottom", "left">>,
      gridlines_color |-> "grey",
      gridlines_alpha |-> 5,
      gridlines_linestyle |-> "--",
      coastlines_edgecolor |-> "black",
      coastlines_linewidths |-> 5 ]

\* ------------------------------------------------------------------ values
None == <<>>
NoProjection == [id |-> 0, kind |-> "none", central_longitude |-> "none"]
NoAx == [shape |-> <<0>>, data |-> <<>>]
NoExc == [raised_by |-> "none", axi |-> 0]

VARIABLES
    pc,          \* "idle", "projection", "subplots", "decorate", "return", "returned", "raised"
    args,        \* the arguments of the call in progress
    proj,        \* the projection object of the call
    fig,         \* the figure number of the call, 0 before plt.subplots
    ax,          \* the axes (scalar or array) of the call: shape and row-major data
    produced,    \* the shape plt.subplots returned, and the ids in its data order
    i,           \* position of the loop in the iteration target
    step,        \* which of the two decoration calls comes next for the current axes
    calls,       \* the decoration calls made so far in this call, in order
    exc,         \* the exception in flight
    result,      \* what the caller received: None or <<fig, ax>>
    registry,    \* matplotlib's global figure registry (figure numbers)
    projections, \* number of projection objects constructed in this call
    figsConstructed, \* number of figures constructed since the start
    ncalls       \* number of calls started

vars ==
    << pc, args, proj, fig, ax, produced, i, step, calls, exc, result,
       registry, projections, figsConstructed, ncalls >>

\* ------------------------------------------------------------------ helpers
RECURSIVE SeqMax(_)
SeqMax(S) ==
    IF S = {} THEN 0
    ELSE LET x == CHOOSE y \in S : TRUE
             m == SeqMax(S \ {x})
         IN IF x > m THEN x ELSE m

\* ccrs.PlateCarree(central_longitude=central_longitude) succeeds on a number.
ValidLongitude(lon) == lon \in {"0.0", "180.0"}

PlateCarreeDefault(id, central_longitude) ==
    [id |-> id, kind |-> "PlateCarree", central_longitude |-> "0.0"]

\* The projection object built from the caller's central_longitude.
PlateCarree(id, central_longitude) ==
    [id |-> id, kind |-> "PlateCarree", central_longitude |-> central_longitude]

SqueezeNever(nrows, ncols) == <<nrows, ncols>>

\* Shape of the array plt.subplots returns (squeeze is left at its default):
\* a scalar for 1 x 1, one dimension for 1 x N and N x 1, two otherwise.
Squeeze(nrows, ncols) ==
    IF nrows = 1 /\ ncols = 1 THEN <<>>
    ELSE IF nrows = 1 \/ ncols = 1 THEN <<nrows * ncols>>
    ELSE <<nrows, ncols>>

\* The axes plt.subplots creates: nrows*ncols axes in row-major order, each
\* with the one projection of subplot_kw and no overlay yet.
NewAxes(nrows, ncols, projection) ==
    [ shape |-> Squeeze(nrows, ncols),
      data |-> [k \in 1..(nrows * ncols) |->
                  [id |-> k, projection |-> projection, overlays |-> <<>>]] ]

NextFigNum(reg) == SeqMax(reg) + 1

RegisterNothing(reg, num) == reg

\* plt.subplots creates the figure through pyplot, which registers it.
Register(reg, num) == reg \cup {num}

FlatReversed(a) == [k \in 1..Len(a.data) |-> Len(a.data) + 1 - k]

\* ax.flat: the positions of the data in row-major order.
Flat(a) == [k \in 1..Len(a.data) |-> k]

TargetsButLast(nrows, ncols, a) ==
    IF nrows = 1 /\ ncols = 1
    THEN [ok |-> a.shape = <<>>, seq |-> IF a.shape = <<>> THEN <<1>> ELSE <<>>]
    ELSE [ok |-> a.shape # <<>>,
          seq |-> IF a.shape # <<>> THEN SubSeq(Flat(a), 1, Len(a.data) - 1) ELSE <<>>]

\* What the branch decorates: ax itself when nrows == 1 and ncols == 1, the
\* elements of ax.flat otherwise.  ok is FALSE when ax has not the attribute
\* the branch uses (an array has no gridlines, a single axes has no flat).
Targets(nrows, ncols, a) ==
    IF nrows = 1 /\ ncols = 1
    THEN [ok |-> a.shape = <<>>, seq |-> IF a.shape = <<>> THEN <<1>> ELSE <<>>]
    ELSE [ok |-> a.shape # <<>>, seq |-> IF a.shape # <<>> THEN Flat(a) ELSE <<>>]

CoastlinesFirst == <<"coastlines", "gridlines">>

\* The two decoration calls of either branch, in program order.
DecorationOrder == <<"gridlines", "coastlines">>

GridlinesKwargsAllLabels(a) ==
    [ draw_labels |-> <<"bool", "True">>,
      color |-> a.gridlines_color,
      alpha |-> a.gridlines_alpha,
      linestyle |-> a.gridlines_linestyle ]

\* The keyword arguments of ax.gridlines / axi.gridlines.
GridlinesKwargs(a) ==
    [ draw_labels |-> a.draw_labels,
      color |-> a.gridlines_color,
      alpha |-> a.gridlines_alpha,
      linestyle |-> a.gridlines_linestyle ]

CoastlinesKwargsDefaultWidth(a) ==
    [ edgecolor |-> a.coastlines_edgecolor, linewidths |-> 5 ]

\* The keyword arguments of ax.coastlines / axi.coastlines.
CoastlinesKwargs(a) ==
    [ edgecolor |-> a.coastlines_edgecolor,
      linewidths |-> a.coastlines_linewidths ]

Swallow(ok, next) == next

\* No try/except: a provider call that raises ends the function.
Propagate(ok, next) == IF ok THEN next ELSE "raised"

\* ------------------------------------------------------------------ actions
Init ==
    /\ pc = "idle"
    /\ args = DefaultArgs
    /\ proj = NoProjection
    /\ fig = 0
    /\ ax = NoAx
    /\ produced = [shape |-> <<0>>, ids |-> <<>>]
    /\ i = 0
    /\ step = 0
    /\ calls = <<>>
    /\ exc = NoExc
    /\ result = None
    /\ registry = {}
    /\ projections = 0
    /\ figsConstructed = 0
    /\ ncalls = 0

\* The caller enters quick_draw_spatial_basemap with its arguments.
Call ==
    /\ pc \in {"idle", "returned", "raised"}
    /\ ncalls < MaxCalls
    /\ \E r \in Dims, c \in Dims, lon \in Longitudes, dl \in LabelSpecs,
          gs \in GridlineStyles, cs \in CoastlineStyles :
          args' = [ nrows |-> r,
                    ncols |-> c,
                    central_longitude |-> lon,
                    draw_labels |-> dl,
                    gridlines_color |-> gs.color,
                    gridlines_alpha |-> gs.alpha,
                    gridlines_linestyle |-> gs.linestyle,
                    coastlines_edgecolor |-> cs.edgecolor,
                    coastlines_linewidths |-> cs.linewidths ]
    /\ pc' = "projection"
    /\ proj' = NoProjection
    /\ fig' = 0
    /\ ax' = NoAx
    /\ produced' = [shape |-> <<0>>, ids |-> <<>>]
    /\ i' = 0
    /\ step' = 0
    /\ calls' = <<>>
    /\ exc' = NoExc
    /\ result' = None
    /\ projections' = 0
    /\ ncalls' = ncalls + 1
    /\ UNCHANGED <<registry, figsConstructed>>

\* ccrs.PlateCarree(central_longitude=central_longitude), evaluated once while
\* the arguments of plt.subplots are built.
Projection ==
    /\ pc = "projection"
    /\ LET ok == ValidLongitude(args.central_longitude)
       IN /\ pc' = Propagate(ok, "subplots")
          /\ proj' = IF ok THEN PlateCarree(ncalls, args.central_longitude) ELSE proj
          /\ projections' = IF ok THEN projections + 1 ELSE projections
          /\ exc' = IF ok THEN exc ELSE [raised_by |-> "PlateCarree", axi |-> 0]
    /\ UNCHANGED <<args, fig, ax, produced, i, step, calls, result, registry,
                   figsConstructed, ncalls>>

\* plt.subplots(nrows, ncols, subplot_kw={"projection": ...}): the figure is
\* created and registered, then the grid of axes; a grid dimension below 1
\* raises after the figure exists.
Subplots ==
    /\ pc = "subplots"
    /\ LET num == NextFigNum(registry)
           ok == args.nrows >= 1 /\ args.ncols >= 1
           new == NewAxes(args.nrows, args.ncols, proj)
       IN /\ registry' = Register(registry, num)
          /\ figsConstructed' = figsConstructed + 1
          /\ fig' = num
          /\ ax' = IF ok THEN new ELSE ax
          /\ produced' = IF ok
                         THEN [shape |-> new.shape,
                               ids |-> [k \in 1..Len(new.data) |-> new.data[k].id]]
                         ELSE produced
          /\ i' = 1
          /\ step' = 1
          /\ exc' = IF ok THEN exc ELSE [raised_by |-> "subplots", axi |-> 0]
          /\ pc' = Propagate(ok, "decorate")
    /\ UNCHANGED <<args, proj, calls, result, projections, ncalls>>

\* One decoration call on the current axes: it adds its overlay or raises.
Decorate(op, kwargs, provider_ok) ==
    LET t == Targets(args.nrows, args.ncols, ax)
        inside == t.ok /\ i <= Len(t.seq)
        ok == provider_ok /\ inside
        k == IF inside THEN t.seq[i] ELSE 0
        more == step < Len(DecorationOrder) \/ i < Len(t.seq)
    IN /\ calls' = Append(calls, [op |-> op, axi |-> k, kwargs |-> kwargs, ok |-> ok])
       /\ ax' = IF ok
                THEN [ax EXCEPT !.data[k].overlays =
                          Append(@, [kind |-> op, kwargs |-> kwargs])]
                ELSE ax
       /\ exc' = IF ok \/ exc # NoExc THEN exc ELSE [raised_by |-> op, axi |-> k]
       /\ pc' = Propagate(ok, IF more THEN "decorate" ELSE "return")
       /\ step' = IF step < Len(DecorationOrder) THEN step + 1 ELSE 1
       /\ i' = IF step < Len(DecorationOrder) THEN i ELSE i + 1
       /\ UNCHANGED <<args, proj, fig, produced, result, registry, projections,
                      figsConstructed, ncalls>>

\* ax.gridlines(draw_labels=..., color=..., alpha=..., linestyle=...)
Gridlines ==
    /\ pc = "decorate"
    /\ DecorationOrder[step] = "gridlines"
    /\ \E provider_ok \in BOOLEAN :
          Decorate("gridlines", GridlinesKwargs(args), provider_ok)

\* ax.coastlines(edgecolor=..., linewidths=...)
Coastlines ==
    /\ pc = "decorate"
    /\ DecorationOrder[step] = "coastlines"
    /\ \E provider_ok \in BOOLEAN :
          Decorate("coastlines", CoastlinesKwargs(args), provider_ok)

\* return fig, ax
Return ==
    /\ pc = "return"
    /\ result' = <<fig, ax>>
    /\ pc' = "returned"
    /\ UNCHANGED <<args, proj, fig, ax, produced, i, step, calls, exc, registry,
                   projections, figsConstructed, ncalls>>

Next ==
    \/ Call
    \/ Projection
    \/ Subplots
    \/ Gridlines
    \/ Coastlines
    \/ Return

Spec == Init /\ [][Next]_vars

\* ------------------------------------------------------------------ properties
Surfaces == args.nrows * args.ncols

ValidGrid == args.nrows >= 1 /\ args.ncols >= 1

\* The overlays the caller asked for, written from the arguments.
CallerGridline ==
    [ kind |-> "gridlines",
      kwargs |-> [ draw_labels |-> args.draw_labels,
                   color |-> args.gridlines_color,
                   alpha |-> args.gridlines_alpha,
                   linestyle |-> args.gridlines_linestyle ] ]

CallerCoastline ==
    [ kind |-> "coastlines",
      kwargs |-> [ edgecolor |-> args.coastlines_edgecolor,
                   linewidths |-> args.coastlines_linewidths ] ]

OfKind(a, kind) == {j \in 1..Len(a.overlays) : a.overlays[j].kind = kind}

HasBoth(a) ==
    /\ Cardinality(OfKind(a, "gridlines")) = 1
    /\ Cardinality(OfKind(a, "coastlines")) = 1
    /\ \A j \in OfKind(a, "gridlines") : a.overlays[j] = CallerGridline
    /\ \A j \in OfKind(a, "coastlines") : a.overlays[j] = CallerCoastline

OnlyGridline(a) ==
    /\ Len(a.overlays) = 1
    /\ a.overlays[1].kind = "gridlines"
    /\ a.overlays[1] = CallerGridline

Bare(a) == a.overlays = <<>>

DecorationFailed == exc.raised_by \in {"gridlines", "coastlines"}

\* C1: a completed call with rows*columns > 1 returns a collection of exactly
\* rows*columns surfaces, and each of them carries exactly one gridline and
\* exactly one coastline overlay, both with the caller's style parameters.
C1_EveryElementDecorated ==
    (pc = "returned" /\ ValidGrid /\ Surfaces > 1) =>
        /\ Len(result[2].data) = Surfaces
        /\ \A k \in 1..Len(result[2].data) : HasBoth(result[2].data[k])

C1_Witness ==
    /\ pc = "returned"
    /\ args.nrows = 2 /\ args.ncols = 2
    /\ args.gridlines_color = "red"
    /\ Len(result[2].data) = 4
    /\ \A k \in 1..4 : Len(result[2].data[k].overlays) = 2

\* C2: a completed 1 x 1 call returns a single surface, not a sequence, with
\* exactly one gridline and one coastline overlay in the caller's style.
C2_SingleSurface ==
    (pc = "returned" /\ args.nrows = 1 /\ args.ncols = 1) =>
        /\ result[2].shape = <<>>
        /\ Len(result[2].data) = 1
        /\ HasBoth(result[2].data[1])

C2_Witness ==
    /\ pc = "returned"
    /\ args.nrows = 1 /\ args.ncols = 1
    /\ args.coastlines_linewidths = 12
    /\ Len(result[2].data[1].overlays) = 2

\* C3 as stated: the returned collection has shape (rows, columns) whenever
\* rows > 1 or columns > 1, the 1 x N and N x 1 grids included, and is a single
\* surface for 1 x 1.
C3_ShapeIsRowsByColumns ==
    (pc = "returned" /\ ValidGrid) =>
        /\ (args.nrows > 1 \/ args.ncols > 1) => result[2].shape = <<args.nrows, args.ncols>>
        /\ (args.nrows = 1 /\ args.ncols = 1) => result[2].shape = <<>>

\* C3 amended: the shape is (rows, columns) when both exceed 1, the single
\* dimension (rows*columns) when exactly one of them is 1, and the value is a
\* single surface for 1 x 1.
C3_ShapeSqueezed ==
    (pc = "returned" /\ ValidGrid) =>
        /\ (args.nrows > 1 /\ args.ncols > 1) => result[2].shape = <<args.nrows, args.ncols>>
        /\ (Surfaces > 1 /\ (args.nrows = 1 \/ args.ncols = 1)) => result[2].shape = <<Surfaces>>
        /\ (args.nrows = 1 /\ args.ncols = 1) => result[2].shape = <<>>

C3_Witness ==
    /\ pc = "returned"
    /\ args.nrows = 1 /\ args.ncols = 2
    /\ result[2].shape = <<2>>

\* C4: on every surface the gridline call comes before the coastline call: a
\* coastline call on a surface is always preceded by the gridline call on it,
\* and no gridline call on a surface follows a coastline call on it.
C4_GridlinesBeforeCoastlines ==
    \A j \in 1..Len(calls) :
        calls[j].op = "coastlines" =>
            /\ \E h \in 1..(j - 1) :
                  calls[h].op = "gridlines" /\ calls[h].axi = calls[j].axi
            /\ \A h \in (j + 1)..Len(calls) :
                  ~(calls[h].op = "gridlines" /\ calls[h].axi = calls[j].axi)

C4_Witness ==
    /\ pc = "returned"
    /\ Surfaces > 1
    /\ Len(calls) = 2 * Surfaces
    /\ calls[Len(calls)].op = "coastlines"

\* C5: one projection object is constructed per call, from the caller's
\* central_longitude, and every surface of the call carries that same Plate
\* Carree projection.
C5_OneSharedProjection ==
    /\ projections <= 1
    /\ ax # NoAx =>
          /\ projections = 1
          /\ proj.id = ncalls
          /\ \A k \in 1..Len(ax.data) :
                /\ ax.data[k].projection.kind = "PlateCarree"
                /\ ax.data[k].projection.central_longitude = args.central_longitude
                /\ ax.data[k].projection.id = proj.id

C5_Witness ==
    /\ pc = "returned"
    /\ Surfaces > 1
    /\ args.central_longitude = "180.0"
    /\ \A k \in 1..Len(ax.data) : ax.data[k].projection.central_longitude = "180.0"

\* C6: every gridline call receives the caller's label_spec exactly as given,
\* whatever its shape; the first and the last surface see the same value.
C6_LabelSpecPassedThrough ==
    \A j \in 1..Len(calls) :
        calls[j].op = "gridlines" =>
            /\ calls[j].kwargs.draw_labels = args.draw_labels
            /\ \A h \in 1..Len(calls) :
                  calls[h].op = "gridlines" =>
                      calls[h].kwargs.draw_labels = calls[j].kwargs.draw_labels

C6_Witness ==
    /\ pc = "returned"
    /\ Surfaces > 1
    /\ args.draw_labels = <<"dict", "bottom", "x", "left", "y">>
    /\ calls[1].kwargs.draw_labels = <<"dict", "bottom", "x", "left", "y">>
    /\ calls[Len(calls) - 1].kwargs.draw_labels = <<"dict", "bottom", "x", "left", "y">>

\* C7: a call ends in one of two ways: it returns the figure and its surfaces,
\* every one with both decorations and no exception in flight, or a provider
\* call raised, that exception is the one in flight and nothing is returned.
C7_AllOrNothing ==
    /\ pc = "returned" =>
          /\ exc = NoExc
          /\ result = <<fig, ax>>
          /\ Len(ax.data) >= 1
          /\ \A k \in 1..Len(ax.data) : HasBoth(ax.data[k])
    /\ pc = "raised" =>
          /\ result = None
          /\ exc.raised_by \in {"PlateCarree", "subplots", "gridlines", "coastlines"}
    /\ result # None => pc = "returned"
    /\ exc # NoExc => pc = "raised"

C7_Witness ==
    /\ pc = "raised"
    /\ exc.raised_by = "gridlines"
    /\ exc.axi = 2
    /\ HasBoth(ax.data[1])
    /\ result = None

\* C8 as stated: when a decoration call fails on surface k of a multi-surface
\* grid, surface k and every later one have no overlay at all and every
\* earlier one has both.
C8_FailedSurfaceIsBare ==
    (DecorationFailed /\ Surfaces > 1) =>
        \A k \in 1..Len(ax.data) :
            /\ k < exc.axi => HasBoth(ax.data[k])
            /\ k >= exc.axi => Bare(ax.data[k])

\* C8 amended: when a decoration call fails on surface k of a multi-surface
\* grid, every earlier surface has both overlays, every later one has none,
\* and surface k has none when its gridline call failed and its gridline
\* overlay only when its coastline call failed; nothing is rolled back.
C8_FailedSurfaceKeepsGridline ==
    (DecorationFailed /\ Surfaces > 1) =>
        \A k \in 1..Len(ax.data) :
            /\ k < exc.axi => HasBoth(ax.data[k])
            /\ k > exc.axi => Bare(ax.data[k])
            /\ (k = exc.axi /\ exc.raised_by = "gridlines") => Bare(ax.data[k])
            /\ (k = exc.axi /\ exc.raised_by = "coastlines") => OnlyGridline(ax.data[k])

C8_Witness ==
    /\ pc = "raised"
    /\ Surfaces = 4
    /\ exc.raised_by = "coastlines"
    /\ exc.axi = 2
    /\ HasBoth(ax.data[1])
    /\ OnlyGridline(ax.data[2])
    /\ Bare(ax.data[3])

\* The decoration calls of a completed call visit the surfaces 1, 2, ... in
\* row-major order, both calls of one surface before any call of the next.
VisitedInFlatOrder ==
    /\ Len(calls) = 2 * Surfaces
    /\ \A j \in 1..Len(calls) : calls[j].axi = (j + 1) \div 2

\* The returned collection is the one plt.subplots produced.
ReturnedAsProduced ==
    /\ result[2].shape = produced.shape
    /\ Len(result[2].data) = Len(produced.ids)
    /\ \A k \in 1..Len(produced.ids) : result[2].data[k].id = produced.ids[k]

\* C9 as stated: with rows*columns > 1 the collection is a flat sequence of
\* rows*columns surfaces whatever the grid shape, it is decorated in row-major
\* order one surface after the other, and it is returned as produced.
C9_CollectionIsFlat ==
    (pc = "returned" /\ ValidGrid /\ Surfaces > 1) =>
        /\ result[2].shape = <<Surfaces>>
        /\ VisitedInFlatOrder
        /\ ReturnedAsProduced

\* C9 amended: with rows*columns > 1 the surfaces are visited through a flat
\* row-major view of rows*columns elements whatever the grid shape, one
\* surface after the other, and the collection is returned as produced, in
\* the shape the provider gave it.
C9_FlatViewOrder ==
    (pc = "returned" /\ ValidGrid /\ Surfaces > 1) =>
        /\ Len(result[2].data) = Surfaces
        /\ VisitedInFlatOrder
        /\ ReturnedAsProduced

C9_Witness ==
    /\ pc = "returned"
    /\ args.nrows = 2 /\ args.ncols = 2
    /\ result[2].shape = <<2, 2>>
    /\ calls[3].axi = 2
    /\ calls[8].axi = 4

\* C10: the registry holds one figure per figure constructed, none is ever
\* removed, a call that fails in decoration leaves its figure registered and
\* unreturned, and a call starts from nothing but its arguments.
C10_RegistryGrowsByOnePerFigure ==
    /\ Cardinality(registry) = figsConstructed
    /\ registry = 1..figsConstructed
    /\ fig # 0 => fig \in registry
    /\ DecorationFailed => (fig \in registry /\ result = None)
    /\ pc = "projection" =>
          /\ fig = 0 /\ ax = NoAx /\ proj = NoProjection
          /\ calls = <<>> /\ exc = NoExc /\ result = None

C10_Witness ==
    /\ pc = "raised"
    /\ ncalls = 2
    /\ exc.raised_by = "coastlines"
    /\ Surfaces > 1
    /\ OnlyGridline(ax.data[exc.axi])
    /\ Cardinality(registry) = 2
    /\ fig = 2
    /\ result = None

====
